---- MODULE Spec2Model ----
(***************************************************************************)
(* Model of creme.model_selection.progressive_val_score                    *)
(* (src/creme/model_selection/score.py).                                   *)
(*                                                                         *)
(* The function is a single sequential loop over the events produced by    *)
(* stream.simulate_qa.  One action models the compatibility check and the  *)
(* set-up, one action models one whole iteration of the loop for each kind *)
(* of event the source can yield, and one action models the return.        *)
(* The model, the metric and the event source are collaborators: the calls *)
(* made on the model and the metric are recorded in `calls`, the printed   *)
(* lines in `out`, and the values predict returns are drawn from small     *)
(* sets.                                                                   *)
(***************************************************************************)
EXTENDS Integers, Sequences, FiniteSets, TLC

\* Number of observations of the input stream X_y.
MaxObs == 2

\* Python values that the code compares against.
NoneVal == "None"
EmptyDict == "{}"
\* Filler of a call-record field that the call does not take.
NoArg == "-"

\* Revealed ground truths; "False" is a falsy but present label.
Labels == {"False", "True"}
\* Labels of a stream in which a label may be missing: present or None.
LabelsOrNone == {"False", NoneVal}

\* Values of the print_every parameter.
PrintEveryValues == {-2, 0, 1, 2}

\* Features of the i-th observation of the stream (opaque to the evaluator).
XOf(i) == "x" \o ToString(i)

\* The empty dict `preds = {}`.
EmptyMap == [k \in {} |-> NoneVal]

VARIABLES
    pc,               \* "start", "loop", "returned", "ValueError", "KeyError"
    works_with,       \* metric.works_with(model)
    is_classifier,    \* isinstance(guess_model(model), base.Classifier)
    requires_labels,  \* metric.requires_labels
    delay,            \* TRUE iff the delay parameter is not None
    print_every,
    show_time,
    show_memory,
    pred_func,        \* "predict_one" or "predict_proba_one"
    preds,            \* pending predictions: index -> prediction
    n_total_answers,
    calls,            \* calls made on the model and the metric, in order
    out,              \* lines printed, in order
    events,           \* events yielded so far by simulate_qa, in order
    next_i,           \* simulate_qa: number of items read from X_y
    mementos          \* simulate_qa: index -> [x, y] waiting to be revealed

vars == <<pc, works_with, is_classifier, requires_labels, delay, print_every,
          show_time, show_memory, pred_func, preds, n_total_answers, calls,
          out, events, next_i, mementos>>

params == <<works_with, is_classifier, requires_labels, delay, print_every,
            show_time, show_memory>>

----------------------------------------------------------------------------
(* Pure helpers, one per expression of the source.                         *)

\* Python's a % b for integers: the result has the sign of the divisor.
PyMod(a, b) == IF b > 0 THEN a % b ELSE -((-a) % (-b))

\* Variant: the compatibility check is missing.
Incompatible_Never(ww) == FALSE

\* `if not metric.works_with(model): raise ValueError`
Incompatible(ww) == ~ww

\* Variant: the metric's requires_labels is not consulted.
SelectPredFunc_IgnoreMetric(cls, req) ==
    IF cls THEN "predict_proba_one" ELSE "predict_one"

\* pred_func = predict_one, replaced by predict_proba_one for a classifier
\* whose metric does not require labels.
SelectPredFunc(cls, req) ==
    IF cls /\ ~req THEN "predict_proba_one" ELSE "predict_one"

\* Values the chosen prediction call may return (the model is external).
PredValues(fn) ==
    IF fn = "predict_proba_one" THEN {EmptyDict, "{True: 0.5}"}
                                ELSE {NoneVal, "0", "1"}

\* `if y is None`
IsQuestion(y) == y = NoneVal

\* Variant: `preds = {i: pred_func(x=x)}`, which drops the other entries.
Store_Replace(p, i, v) == [k \in {i} |-> v]

\* Variant: `preds.setdefault(i, pred_func(x=x))`, which keeps an entry
\* that is already there.
Store_SetDefault(p, i, v) ==
    [k \in (DOMAIN p) \cup {i} |-> IF k \in DOMAIN p THEN p[k] ELSE v]

\* `preds[i] = pred_func(x=x)`
Store(p, i, v) == [k \in (DOMAIN p) \cup {i} |-> IF k = i THEN v ELSE p[k]]

\* Variant: `preds.popitem()`, which pops the entry stored last.
Pop_Item(p, i) ==
    IF DOMAIN p = {}
    THEN [ok |-> FALSE, val |-> NoneVal, rest |-> p]
    ELSE LET last == CHOOSE k \in DOMAIN p : \A j \in DOMAIN p : j <= k
         IN  [ok |-> TRUE, val |-> p[last],
              rest |-> [k \in (DOMAIN p) \ {last} |-> p[k]]]

\* Variant: `preds[i]` (or `preds.get(i)`), which leaves the entry in place.
Pop_NoRemove(p, i) ==
    IF i \in DOMAIN p
    THEN [ok |-> TRUE, val |-> p[i], rest |-> p]
    ELSE [ok |-> FALSE, val |-> NoneVal, rest |-> p]

\* Variant: `preds.pop(i, None)`, which defaults a missing entry.
Pop_Default(p, i) ==
    IF i \in DOMAIN p
    THEN [ok |-> TRUE, val |-> p[i], rest |-> [k \in (DOMAIN p) \ {i} |-> p[k]]]
    ELSE [ok |-> TRUE, val |-> NoneVal, rest |-> p]

\* `preds.pop(i)`: the value and the remaining dict, or a KeyError.
Pop(p, i) ==
    IF i \in DOMAIN p
    THEN [ok |-> TRUE, val |-> p[i], rest |-> [k \in (DOMAIN p) \ {i} |-> p[k]]]
    ELSE [ok |-> FALSE, val |-> NoneVal, rest |-> p]

\* Variant: `if y_pred:`, Python truthiness.
ShouldUpdate_Truthy(y_pred) == y_pred \notin {EmptyDict, NoneVal, "0"}

\* Variant: `if y_pred is not None`, which lets the empty dict through.
ShouldUpdate_OnlyNone(y_pred) == y_pred # NoneVal

\* `if y_pred != {} and y_pred is not None`
ShouldUpdate(y_pred) == y_pred # EmptyDict /\ y_pred # NoneVal

PredictCall(fn, i, x, ret) ==
    [op |-> fn, i |-> i, x |-> x, y |-> NoArg, pred |-> ret]
UpdateCall(i, y, y_pred) ==
    [op |-> "update", i |-> i, x |-> NoArg, y |-> y, pred |-> y_pred]
FitCall(i, x, y) ==
    [op |-> "fit_one", i |-> i, x |-> x, y |-> y, pred |-> NoArg]

\* Variant: the model is trained before the metric is updated.
AnswerCalls_TrainFirst(i, x, y, y_pred) ==
    <<FitCall(i, x, y)>>
        \o (IF ShouldUpdate(y_pred) THEN <<UpdateCall(i, y, y_pred)>> ELSE <<>>)

\* Variant: fit_one sits inside the `if`, so a degenerate prediction skips it.
AnswerCalls_SkipDegenerate(i, x, y, y_pred) ==
    IF ShouldUpdate(y_pred)
    THEN <<UpdateCall(i, y, y_pred), FitCall(i, x, y)>>
    ELSE <<>>

\* The calls of one answer: metric.update (if any), then model.fit_one.
AnswerCalls(i, x, y, y_pred) ==
    (IF ShouldUpdate(y_pred) THEN <<UpdateCall(i, y, y_pred)>> ELSE <<>>)
        \o <<FitCall(i, x, y)>>

\* Variant: `n_total_answers = 1`.
Incremented_Reset(n) == 1

\* `n_total_answers += 1`
Incremented(n) == n + 1

\* Variant: `if print_every`, without the modulo test.
ShouldPrint_NoModulo(pe, n) == pe # 0

\* `if print_every and not n_total_answers % print_every`
ShouldPrint(pe, n) == pe # 0 /\ PyMod(n, pe) = 0

\* The printed message: the counter, and which optional parts it carries.
Msg(n, st, sm) == [n |-> n, time |-> st, memory |-> sm]

----------------------------------------------------------------------------
(* Initial state: the arguments of the call.                               *)

Init ==
    /\ pc = "start"
    /\ works_with \in BOOLEAN
    /\ is_classifier \in BOOLEAN
    /\ requires_labels \in BOOLEAN
    /\ delay \in BOOLEAN
    /\ print_every \in PrintEveryValues
    /\ show_time \in BOOLEAN
    /\ show_memory \in BOOLEAN
    /\ pred_func = NoArg
    /\ preds = EmptyMap
    /\ n_total_answers = 0
    /\ calls = <<>>
    /\ out = <<>>
    /\ events = <<>>
    /\ next_i = 0
    /\ mementos = EmptyMap

----------------------------------------------------------------------------
(* The function body.                                                      *)

\* Lines 111-113: the metric does not work with the model.
RaiseIncompatible ==
    /\ pc = "start"
    /\ Incompatible(works_with)
    /\ pc' = "ValueError"
    /\ UNCHANGED <<params, pred_func, preds, n_total_answers, calls, out,
                   events, next_i, mementos>>

\* Lines 112-125: the check passes; pred_func, preds and the counter are set.
Setup ==
    /\ pc = "start"
    /\ ~Incompatible(works_with)
    /\ pred_func' = SelectPredFunc(is_classifier, requires_labels)
    /\ preds' = EmptyMap
    /\ n_total_answers' = 0
    /\ pc' = "loop"
    /\ UNCHANGED <<params, calls, out, events, next_i, mementos>>

\* Lines 129-132: the body of the loop for a question.
OnQuestion(i, x) ==
    \E ret \in PredValues(pred_func) :
        /\ preds' = Store(preds, i, ret)
        /\ calls' = Append(calls, PredictCall(pred_func, i, x, ret))
        /\ UNCHANGED <<pc, n_total_answers, out>>

\* Variant: the counter is reset once a line was printed.
OnAnswer_ResetAfterPrint(i, x, y) ==
    LET r == Pop(preds, i) IN
    IF ~r.ok
    THEN /\ pc' = "KeyError"
         /\ UNCHANGED <<preds, calls, n_total_answers, out>>
    ELSE /\ preds' = r.rest
         /\ calls' = calls \o AnswerCalls(i, x, y, r.val)
         /\ n_total_answers' =
                IF ShouldPrint(print_every, Incremented(n_total_answers))
                THEN 0 ELSE Incremented(n_total_answers)
         /\ out' = IF ShouldPrint(print_every, Incremented(n_total_answers))
                   THEN Append(out, Msg(Incremented(n_total_answers),
                                        show_time, show_memory))
                   ELSE out
         /\ UNCHANGED pc

\* Lines 134-149: the body of the loop for an answer.
OnAnswer(i, x, y) ==
    LET r == Pop(preds, i) IN
    IF ~r.ok
    THEN /\ pc' = "KeyError"
         /\ UNCHANGED <<preds, calls, n_total_answers, out>>
    ELSE /\ preds' = r.rest
         /\ calls' = calls \o AnswerCalls(i, x, y, r.val)
         /\ n_total_answers' = Incremented(n_total_answers)
         /\ out' = IF ShouldPrint(print_every, n_total_answers')
                   THEN Append(out, Msg(n_total_answers', show_time, show_memory))
                   ELSE out
         /\ UNCHANGED pc

\* Lines 127-149: one iteration of the loop on the event (i, x, y).
LoopBody(i, x, y) ==
    /\ events' = Append(events, [i |-> i, x |-> x, y |-> y])
    /\ IF IsQuestion(y) THEN OnQuestion(i, x) ELSE OnAnswer(i, x, y)
    /\ UNCHANGED <<params, pred_func>>

----------------------------------------------------------------------------
(* The event source, stream.simulate_qa, driving the loop.                 *)

\* The source may read the next item of X_y: always when a delay is
\* configured, and only once the previous answer was revealed when not.
CanAsk == next_i < MaxObs /\ (delay \/ DOMAIN mementos = {})

\* The source's list of mementos: insertion and removal.
Remember(m, i, v) == [k \in (DOMAIN m) \cup {i} |-> IF k = i THEN v ELSE m[k]]
Forget(m, i) == [k \in (DOMAIN m) \ {i} |-> m[k]]

\* The source reads item next_i of X_y, whose label is y, remembers it and
\* yields its question.
Ask(Ys) ==
    /\ pc = "loop"
    /\ CanAsk
    /\ \E y \in Ys :
        /\ mementos' = Remember(mementos, next_i, [x |-> XOf(next_i), y |-> y])
        /\ next_i' = next_i + 1
        /\ LoopBody(next_i, XOf(next_i), NoneVal)

\* The source reveals the label of a remembered observation.
Reveal ==
    /\ pc = "loop"
    /\ \E i \in DOMAIN mementos :
        /\ mementos' = Forget(mementos, i)
        /\ UNCHANGED next_i
        /\ LoopBody(i, mementos[i].x, mementos[i].y)

\* A source that breaks its contract: it yields an answer for an index it
\* does not remember.
OrphanAnswer ==
    /\ pc = "loop"
    /\ \E i \in (0 .. MaxObs - 1) \ DOMAIN mementos, y \in Labels :
        /\ UNCHANGED <<next_i, mementos>>
        /\ LoopBody(i, XOf(i), y)

\* Line 151: the source is exhausted.
Return ==
    /\ pc = "loop"
    /\ DOMAIN mementos = {}
    /\ pc' = "returned"
    /\ UNCHANGED <<params, pred_func, preds, n_total_answers, calls, out,
                   events, next_i, mementos>>

AskLabelled == Ask(Labels)
AskAny == Ask(LabelsOrNone)

\* A source that keeps its contract, over a stream whose labels are present.
Next == RaiseIncompatible \/ Setup \/ AskLabelled \/ Reveal \/ Return
Spec == Init /\ [][Next]_vars

\* A source that may yield answers nobody asked for.
NextFaulty ==
    RaiseIncompatible \/ Setup \/ AskLabelled \/ Reveal \/ OrphanAnswer \/ Return
SpecFaulty == Init /\ [][NextFaulty]_vars

\* A source over a stream in which a label may be None.
NextNoneLabel == RaiseIncompatible \/ Setup \/ AskAny \/ Reveal \/ Return
SpecNoneLabel == Init /\ [][NextNoneLabel]_vars

----------------------------------------------------------------------------
(* Views of the logs used by the properties.                               *)

IsPredict(c) == c.op \in {"predict_one", "predict_proba_one"}
IsUpdate(c) == c.op = "update"
IsFit(c) == c.op = "fit_one"
IsAnswerEvent(e) == e.y # NoneVal
IsQuestionEvent(e) == e.y = NoneVal

PredictLog == SelectSeq(calls, IsPredict)
UpdateLog == SelectSeq(calls, IsUpdate)
FitLog == SelectSeq(calls, IsFit)
AnswerEvents == SelectSeq(events, IsAnswerEvent)
QuestionEvents == SelectSeq(events, IsQuestionEvent)

Degenerate(v) == v \in {EmptyDict, NoneVal}
Running == pc \in {"loop", "returned"}

----------------------------------------------------------------------------
(* Properties.                                                             *)

\* C1: for every observation, the prediction is computed before the metric
\* is updated for it, and the metric is updated for it before the model is
\* trained on it; no prediction for an observation is computed once the
\* metric was updated or the model trained for that observation.
C1_PredictUpdateTrain ==
    \A k \in DOMAIN calls :
        LET c == calls[k]
            before == 1 .. (k - 1)
        IN  /\ IsUpdate(c) =>
                /\ \E j \in before : IsPredict(calls[j]) /\ calls[j].i = c.i
                /\ \A j \in before : ~(IsFit(calls[j]) /\ calls[j].i = c.i)
            /\ IsFit(c) =>
                \E j \in before : IsPredict(calls[j]) /\ calls[j].i = c.i
            /\ IsPredict(c) =>
                \A j \in before :
                    ~((IsUpdate(calls[j]) \/ IsFit(calls[j])) /\ calls[j].i = c.i)

\* A delayed run in which observation 1 was scored and trained on before
\* observation 0.
C1_Witness ==
    /\ pc = "returned"
    /\ delay
    /\ Len(calls) = 6
    /\ IsUpdate(calls[3]) /\ calls[3].i = 1
    /\ IsUpdate(calls[5]) /\ calls[5].i = 0

\* C2: when metric.works_with(model) is false the call raises the
\* configuration error at once: no event is pulled, no predict, update or
\* fit_one call is made, nothing is printed and preds holds nothing.
C2_IncompatibleRaisesFirst ==
    /\ (~works_with /\ pc # "start") =>
        /\ pc = "ValueError"
        /\ events = <<>>
        /\ next_i = 0
        /\ calls = <<>>
        /\ out = <<>>
        /\ n_total_answers = 0
        /\ preds = EmptyMap
    /\ pc = "ValueError" => ~works_with

C2_Witness == pc = "ValueError" /\ ~works_with /\ calls = <<>>

\* C3: the fit_one calls are, in order, exactly the answer events: one call
\* per answer event, on that event's features and label, whether or not the
\* metric was updated for it.
C3_TrainedOncePerAnswer ==
    Running =>
        /\ Len(FitLog) = Len(AnswerEvents)
        /\ \A k \in DOMAIN FitLog :
            FitLog[k] = FitCall(AnswerEvents[k].i, AnswerEvents[k].x, AnswerEvents[k].y)

\* A finished run with two answers, one of them with a degenerate stored
\* prediction, hence with a single metric update and two training calls.
C3_Witness ==
    /\ pc = "returned"
    /\ Len(AnswerEvents) = 2
    /\ Len(FitLog) = 2
    /\ Len(UpdateLog) = 1
    /\ \E k \in DOMAIN PredictLog : Degenerate(PredictLog[k].pred)

\* The value the prediction call returned for observation i.
ReturnedFor(i) ==
    (CHOOSE c \in {calls[k] : k \in DOMAIN calls} : IsPredict(c) /\ c.i = i).pred
NonDegenerateFit(f) == ~Degenerate(ReturnedFor(f.i))

\* C4: the metric updates are, in order, exactly the answered observations
\* whose prediction is neither the empty dict nor None, each with that
\* observation's label and prediction.
C4_UpdateIffNonDegenerate ==
    Running =>
        LET scored == SelectSeq(FitLog, NonDegenerateFit)
        IN  /\ Len(UpdateLog) = Len(scored)
            /\ \A k \in DOMAIN scored :
                UpdateLog[k] = UpdateCall(scored[k].i, scored[k].y, ReturnedFor(scored[k].i))

\* Two answers of which the first is scored and the second, whose
\* prediction is degenerate, is not.
C4_Witness ==
    /\ pc = "returned"
    /\ n_total_answers = 2
    /\ Len(UpdateLog) = 1
    /\ UpdateLog[1].i = FitLog[1].i
    /\ Degenerate(ReturnedFor(FitLog[2].i))

\* The manual loop of the docstring over the first n items of the stream:
\*   y_pred = predict(x); metric.update(y, y_pred); model.fit_one(x, y)
\* where the k-th predict call returns what the k-th predict call of the
\* run returned.
RECURSIVE ManualLoop(_)
ManualLoop(n) ==
    IF n = 0 THEN <<>>
    ELSE LET e == AnswerEvents[n]
             ret == PredictLog[n].pred
         IN  ManualLoop(n - 1) \o
             << PredictCall(pred_func, n - 1, e.x, ret),
                UpdateCall(n - 1, e.y, ret),
                FitCall(n - 1, e.x, e.y) >>

\* The same loop with the update guarded as in the evaluator:
\*   if y_pred != {} and y_pred is not None: metric.update(y, y_pred)
RECURSIVE ManualLoopGuarded(_)
ManualLoopGuarded(n) ==
    IF n = 0 THEN <<>>
    ELSE LET e == AnswerEvents[n]
             ret == PredictLog[n].pred
         IN  ManualLoopGuarded(n - 1) \o
             << PredictCall(pred_func, n - 1, e.x, ret) >> \o
             (IF Degenerate(ret) THEN <<>> ELSE << UpdateCall(n - 1, e.y, ret) >>) \o
             << FitCall(n - 1, e.x, e.y) >>

\* Without a delay, every observation read so far has been answered.
BetweenObservations == Running /\ ~delay /\ Len(events) = 2 * Len(AnswerEvents)

CountOf(seq, i) == Cardinality({k \in DOMAIN seq : seq[k].i = i})
Outstanding ==
    {i \in 0 .. MaxObs - 1 :
        CountOf(QuestionEvents, i) > 0 /\ CountOf(AnswerEvents, i) = 0}

\* C6: preds holds exactly the indices asked and not yet answered; an index
\* is asked at most once and answered at most once, after its question; and
\* preds never holds more entries than observations are outstanding.
C6_PendingIsOutstanding ==
    Running =>
        /\ DOMAIN preds = Outstanding
        /\ Cardinality(DOMAIN preds) <= Cardinality(DOMAIN mementos)
        /\ \A i \in 0 .. MaxObs - 1 :
            /\ CountOf(QuestionEvents, i) <= 1
            /\ CountOf(AnswerEvents, i) <= CountOf(QuestionEvents, i)
            /\ CountOf(PredictLog, i) = CountOf(QuestionEvents, i)

\* Index 0 was asked and answered, index 1 is still pending.
C6_Witness ==
    /\ pc = "loop"
    /\ DOMAIN preds = {1}
    /\ CountOf(AnswerEvents, 0) = 1
    /\ n_total_answers = 1

\* C7: when the run returns, preds is empty.
C7_EmptyAtReturn == pc = "returned" => DOMAIN preds = {}

\* A delayed run that held two pending predictions at once and returned.
C7_Witness ==
    /\ pc = "returned"
    /\ delay
    /\ Len(events) = 4
    /\ IsQuestionEvent(events[1]) /\ IsQuestionEvent(events[2])
    /\ DOMAIN preds = {}

\* The step processes an answer event whose index has no pending prediction.
OrphanStep ==
    /\ pc = "loop"
    /\ Len(events') = Len(events) + 1
    /\ IsAnswerEvent(events'[Len(events')])
    /\ events'[Len(events')].i \notin DOMAIN preds

\* C8: an answer event for an index without a pending prediction aborts the
\* run with the lookup error: no metric update, no training call, no
\* increment of the counter, no line printed, preds untouched; and the run
\* does nothing after the error.
C8_OrphanAnswerAborts ==
    [][ /\ OrphanStep =>
            /\ pc' = "KeyError"
            /\ UNCHANGED <<calls, n_total_answers, preds, out>>
        /\ pc = "KeyError" => UNCHANGED vars ]_vars

C8_Witness ==
    /\ pc = "KeyError"
    /\ IsAnswerEvent(events[Len(events)])
    /\ events[Len(events)].i \notin DOMAIN preds
    /\ Len(FitLog) < Len(AnswerEvents)

\* n is a multiple of k.
IsMultiple(n, k) == \E m \in (-n) .. n : n = m * k
DueCounts == {n \in 1 .. n_total_answers : IsMultiple(n, print_every)}

C10_NoLineUnlessPositive == print_every <= 0 => out = <<>>

\* C11: the number compared against print_every counts the predictions,
\* not the training steps: with a delay, after P predictions
\* floor(P / print_every) lines have been printed.
C11_LinesCountPredictions ==
    (Running /\ delay /\ print_every > 0) =>
        Len(out) = Len(PredictLog) \div print_every

\* The step processes a question event.
QuestionStep ==
    /\ pc = "loop"
    /\ Len(events') = Len(events) + 1
    /\ IsQuestionEvent(events'[Len(events')])

\* The step processes an answer event.
AnswerStep ==
    /\ pc = "loop"
    /\ Len(events') = Len(events) + 1
    /\ IsAnswerEvent(events'[Len(events')])

\* C12: a question event makes exactly one call, the prediction call on the
\* event's features, stores what it returned under the event's index and
\* leaves every other entry of preds, the metric, the model's training,
\* the counter and the output as they were.
C12_QuestionFrame ==
    [][ QuestionStep =>
        LET e == events'[Len(events')]
            c == calls'[Len(calls')]
        IN  /\ Len(calls') = Len(calls) + 1
            /\ SubSeq(calls', 1, Len(calls)) = calls
            /\ IsPredict(c) /\ c.op = pred_func /\ c.x = e.x /\ c.i = e.i
            /\ DOMAIN preds' = DOMAIN preds \cup {e.i}
            /\ preds'[e.i] = c.pred
            /\ \A k \in DOMAIN preds : k # e.i => preds'[k] = preds[k]
            /\ UNCHANGED <<n_total_answers, out, pc, pred_func>> ]_vars

\* A question processed after an answer was counted and printed, with
\* print_every = 1: the counter and the output stay as the answer left them.
C12_Witness ==
    /\ pc = "loop"
    /\ Len(events) = 3
    /\ IsQuestionEvent(events[3])
    /\ DOMAIN preds = {1}
    /\ n_total_answers = 1
    /\ print_every = 1
    /\ Len(out) = 1
    /\ IsPredict(calls[Len(calls)])

\* C13: throughout the loop pred_func is the probability call exactly when
\* the model is a classifier and the metric does not require labels, the
\* point-prediction call otherwise, and every prediction of the run is made
\* with it.
C13_PredFuncFixed ==
    Running =>
        /\ pred_func \in {"predict_one", "predict_proba_one"}
        /\ pred_func = "predict_proba_one" <=> (is_classifier /\ ~requires_labels)
        /\ \A k \in DOMAIN PredictLog : PredictLog[k].op = pred_func

\* A classifier scored by a metric that requires labels: two point
\* predictions.
C13_Witness ==
    /\ pc = "returned"
    /\ is_classifier /\ requires_labels
    /\ Len(PredictLog) = 2
    /\ PredictLog[2].op = "predict_one"

\* The loop replayed over the first k events from the events and the values
\* the prediction calls returned alone: the calls made, the pending
\* predictions and the number of answers.  It reads none of print_every,
\* show_time, show_memory and out.
RECURSIVE Replay(_)
Replay(k) ==
    IF k = 0
    THEN [calls |-> <<>>, preds |-> EmptyMap, n |-> 0, np |-> 0]
    ELSE LET prev == Replay(k - 1)
             e == events[k]
         IN  IF e.y = NoneVal
             THEN LET ret == PredictLog[prev.np + 1].pred
                  IN  [calls |-> Append(prev.calls,
                                        PredictCall(pred_func, e.i, e.x, ret)),
                       preds |-> [j \in (DOMAIN prev.preds) \cup {e.i} |->
                                    IF j = e.i THEN ret ELSE prev.preds[j]],
                       n |-> prev.n,
                       np |-> prev.np + 1]
             ELSE LET p == prev.preds[e.i]
                  IN  [calls |-> prev.calls
                                 \o (IF Degenerate(p) THEN <<>>
                                     ELSE <<UpdateCall(e.i, e.y, p)>>)
                                 \o <<FitCall(e.i, e.x, e.y)>>,
                       preds |-> [j \in (DOMAIN prev.preds) \ {e.i} |->
                                    prev.preds[j]],
                       n |-> prev.n + 1,
                       np |-> prev.np]

\* C14: the calls made, the pending predictions and the answer counter are
\* determined by the events and the values the model returned, whatever
\* print_every, show_time and show_memory are; hence two runs that differ
\* only in these make the same calls and return the same metric.
C14_DiagnosticsDoNotInterfere ==
    Running =>
        LET r == Replay(Len(events))
        IN  /\ calls = r.calls
            /\ preds = r.preds
            /\ n_total_answers = r.n

\* A run that printed after each of its two answers, with time and memory.
C14_Witness ==
    /\ pc = "returned"
    /\ print_every = 1 /\ show_time /\ show_memory
    /\ Len(out) = 2
    /\ Len(FitLog) = 2
    /\ Len(UpdateLog) = 2

\* C15: the counter is 0 before the loop, grows by exactly 1 in a step that
\* processes an answer event without error and by 0 in every other step,
\* and always equals the number of training calls made.
C15_CounterCountsAnswers ==
    [][ /\ pc = "start" => n_total_answers = 0
        /\ n_total_answers' =
               n_total_answers + (IF AnswerStep /\ pc' = "loop" THEN 1 ELSE 0)
        /\ n_total_answers' = Len(FitLog') ]_vars

\* Two answers counted, then an answer without pending prediction that
\* aborts the run and is not counted.
C15_Witness ==
    /\ pc = "KeyError"
    /\ n_total_answers = 2
    /\ Len(AnswerEvents) = 3
    /\ Len(FitLog) = 2

\* Number of entries of seq among its first n that satisfy Test.
CountBefore(seq, n, Test(_)) == Cardinality({j \in 1 .. n : Test(seq[j])})

\* Position in events of the question event of index i.
QuestionPos(i) ==
    CHOOSE k \in DOMAIN events : IsQuestionEvent(events[k]) /\ events[k].i = i

\* C16: the prediction given to the metric for index i is the value the
\* prediction call made at the question event of i returned; that call was
\* made when the model had been trained on exactly the observations
\* answered before that question; no prediction call is made at an answer
\* event.
C16_ScoredWithQuestionTimePrediction ==
    /\ Len(PredictLog) = Len(QuestionEvents)
    /\ \A k \in DOMAIN calls :
        IsUpdate(calls[k]) =>
            \E j \in 1 .. (k - 1) :
                /\ IsPredict(calls[j])
                /\ calls[j].i = calls[k].i
                /\ calls[j].pred = calls[k].pred
                /\ CountBefore(calls, j - 1, IsFit)
                       = CountBefore(events, QuestionPos(calls[k].i) - 1, IsAnswerEvent)
                /\ \A m \in DOMAIN calls :
                       (IsPredict(calls[m]) /\ calls[m].i = calls[k].i) => m = j

\* A delayed run: both questions are asked before any answer, the two
\* predictions differ, and the answers come in the reverse order.
C16_Witness ==
    /\ pc = "returned"
    /\ delay
    /\ Len(UpdateLog) = 2
    /\ UpdateLog[1].i = 1 /\ UpdateLog[2].i = 0
    /\ UpdateLog[1].pred # UpdateLog[2].pred
    /\ IsQuestionEvent(events[1]) /\ IsQuestionEvent(events[2])

\* Predictions that Python treats as false and that are valid predictions.
FalsyValid == {"0"}

\* C17: every answered observation whose stored prediction is falsy but is
\* neither the empty dict nor None is given to the metric with that
\* prediction.
C17_FalsyPredictionScored ==
    Running =>
        \A k \in DOMAIN FitLog :
            ReturnedFor(FitLog[k].i) \in FalsyValid =>
                \E j \in DOMAIN UpdateLog :
                    /\ UpdateLog[j].i = FitLog[k].i
                    /\ UpdateLog[j].pred = ReturnedFor(FitLog[k].i)
                    /\ UpdateLog[j].y = FitLog[k].y

C17_Witness ==
    /\ pc = "returned"
    /\ Len(FitLog) = 2
    /\ ReturnedFor(0) = "0"
    /\ ReturnedFor(1) = NoneVal
    /\ Len(UpdateLog) = 1
    /\ UpdateLog[1].pred = "0"

\* Indices whose label the source delivered as None: two question events.
AskedTwice ==
    {i \in 0 .. MaxObs - 1 :
        Cardinality({k \in DOMAIN events :
                        events[k].i = i /\ IsQuestionEvent(events[k])}) = 2}

\* The calls made for index i are two prediction calls and nothing else,
\* and preds holds for i what the second one returned.
RecomputedAndPending(i) ==
    LET ks == {m \in DOMAIN calls : calls[m].i = i}
    IN  /\ i \in DOMAIN preds
        /\ Cardinality(ks) = 2
        /\ \A m \in ks : IsPredict(calls[m])
        /\ preds[i] = calls[CHOOSE m \in ks : \A j \in ks : j <= m].pred

\* C18: every event whose label is None is processed as a question, also
\* when its index is already pending; an observation whose label is
\* delivered as None gets its prediction recomputed and overwritten, is
\* never scored nor trained on, and stays in preds until the run returns.
C18_NoneLabelIsQuestion ==
    Running =>
        /\ Len(PredictLog) = Len(QuestionEvents)
        /\ \A l \in DOMAIN events :
            IsQuestionEvent(events[l]) =>
                \A k \in 1 .. (l - 1) :
                    (IsQuestionEvent(events[k]) /\ events[k].i = events[l].i) =>
                        RecomputedAndPending(events[l].i)

\* A finished run whose first observation had a None label: two different
\* predictions were made for it, the second one is still pending.
C18_Witness ==
    /\ pc = "returned"
    /\ 0 \in AskedTwice
    /\ 0 \in DOMAIN preds
    /\ PredictLog[1].i = 0
    /\ PredictLog[1].pred # preds[0]
    /\ Len(FitLog) = 1
====
